---------------------------- MODULE Spec2Model ----------------------------
(***************************************************************************)
(* A model of the r-datetime picker (src/src/index.tsx): the DateTimePicker *)
(* component, its DatePicker and TimePicker children, and the calendar and  *)
(* 12/24-hour arithmetic they compute.                                      *)
(*                                                                          *)
(* A JavaScript Date is modelled by its local calendar fields               *)
(* [y, m, d, h, mi] (m in 0..11) in a time zone without offset changes;     *)
(* seconds and milliseconds are left out: no operation of the component     *)
(* writes them, so they are the same in every value it compares.            *)
(* Each action is one event handler together with the re-renders and        *)
(* effects React runs before the next event.                                *)
(***************************************************************************)
EXTENDS Integers, Sequences, FiniteSets

VARIABLES
    mode,          \* prop: "datetime" | "date" | "time", as of the last render
    initialDate,   \* prop: the initial instant, as of the last render
    minuteInterval,\* prop: the minute interval handed to TimePicker
    date,          \* DateTimePicker state: the committed value
    isOpen,        \* DateTimePicker state
    activeView,    \* DateTimePicker state: "date" | "time"
    dp,            \* DatePicker's state, or Unmounted
    tp,            \* TimePicker's state, or Unmounted
    calls,         \* observation: invocations of the host's onChange so far
    commits,       \* observation: setDate calls (committed mutations) so far
    delivered,     \* observation: argument of the last onChange call, or NoValue
    mountDate,     \* observation: the initialDate the component was constructed with
    other,         \* a second DateTimePicker of the page (its component tree), or NoValue
    fnIn,          \* input of a pure function under check (arithmetic specification)
    fnOut          \* its result, or NoValue

vars == <<mode, initialDate, minuteInterval, date, isOpen, activeView, dp, tp,
          calls, commits, delivered, mountDate, other, fnIn, fnOut>>

widgetVars == <<mode, initialDate, minuteInterval, date, isOpen, activeView, dp, tp,
                calls, commits, delivered, mountDate, other>>

Unmounted == [mounted |-> FALSE]
NoValue == [none |-> TRUE]

-----------------------------------------------------------------------------
(* The platform's Date: the proleptic Gregorian calendar with the field      *)
(* overflow of the Date constructor and of setFullYear/setMonth/setDate/     *)
(* setHours/setMinutes (MakeDay/MakeTime of ECMAScript).                     *)

IsLeapYear(y) == (y % 4 = 0 /\ y % 100 # 0) \/ y % 400 = 0

MonthLength(y, m) ==
    IF m = 1 THEN (IF IsLeapYear(y) THEN 29 ELSE 28)
    ELSE IF m \in {3, 5, 8, 10} THEN 30 ELSE 31

\* Month overflow carries into the year: month 12 is January of the next year,
\* month -1 December of the previous one.
CarryMonth(y, m) == [y |-> y + (m \div 12), m |-> m % 12]

RECURSIVE CarryDay(_, _, _)
\* Day overflow carries into the month: day 0 is the last day of the previous
\* month, day 31 of a 30-day month the 1st of the next.
CarryDay(y, m, d) ==
    IF d < 1
    THEN LET p == CarryMonth(y, m - 1) IN CarryDay(p.y, p.m, d + MonthLength(p.y, p.m))
    ELSE IF d > MonthLength(y, m)
    THEN LET n == CarryMonth(y, m + 1) IN CarryDay(n.y, n.m, d - MonthLength(y, m))
    ELSE [y |-> y, m |-> m, d |-> d]

\* new Date(y, m, d, h, mi) and the result of every setter: the fields normalised.
MakeDate(y, m, d, h, mi) ==
    LET mins == h * 60 + mi
        ym   == CarryMonth(y, m)
        day  == CarryDay(ym.y, ym.m, d + (mins \div 1440))
    IN  [y |-> day.y, m |-> day.m, d |-> day.d,
         h |-> (mins % 1440) \div 60, mi |-> mins % 60]

SetFullYear(t, y) == MakeDate(y, t.m, t.d, t.h, t.mi)
SetMonth(t, m)    == MakeDate(t.y, m, t.d, t.h, t.mi)
SetDate(t, d)     == MakeDate(t.y, t.m, d, t.h, t.mi)
SetHours(t, h)    == MakeDate(t.y, t.m, t.d, h, t.mi)
SetMinutes(t, mi) == MakeDate(t.y, t.m, t.d, t.h, mi)

RECURSIVE DaysBeforeMonth(_, _)
DaysBeforeMonth(y, m) ==
    IF m = 0 THEN 0 ELSE DaysBeforeMonth(y, m - 1) + MonthLength(y, m - 1)

\* Days from 0001-01-01 to (y, m, d).
DayNumber(y, m, d) ==
    365 * (y - 1) + ((y - 1) \div 4) - ((y - 1) \div 100) + ((y - 1) \div 400)
    + DaysBeforeMonth(y, m) + (d - 1)

\* Date.prototype.getDay: 0 = Sunday. 0001-01-01 is a Monday.
GetDay(t) == (DayNumber(t.y, t.m, t.d) + 1) % 7


-----------------------------------------------------------------------------
(* DatePicker's calendar arithmetic.  A view date is the pair [y, m] that    *)
(* viewDate.getFullYear() and viewDate.getMonth() return.                     *)

TotalCells == 42

\* getDaysInMonth: new Date(year, month + 1, 0).getDate()
GetDaysInMonth(year, month) == MakeDate(year, month + 1, 0, 0, 0).d

\* getFirstDayOfMonth: new Date(year, month, 1).getDay()
GetFirstDayOfMonth(year, month) == GetDay(MakeDate(year, month, 1, 0, 0))

\* getPrevMonthDays: the day numbers of the leading filler cells.
GetPrevMonthDays(view) ==
    LET prevMonth       == MakeDate(view.y, view.m - 1, 1, 0, 0)
        daysInPrevMonth == GetDaysInMonth(prevMonth.y, prevMonth.m)
        firstDayOfMonth == GetFirstDayOfMonth(view.y, view.m)
    IN  [i \in 1..firstDayOfMonth |->
            [kind |-> "prev", day |-> daysInPrevMonth - firstDayOfMonth + (i - 1) + 1]]

\* getNextMonthDays with the loop bound off by one (day < remainingCells).
GetNextMonthDaysShort(firstDayOfMonth, daysInMonth) ==
    LET remainingCells == TotalCells - firstDayOfMonth - daysInMonth
    IN  [day \in 1..(remainingCells - 1) |-> [kind |-> "next", day |-> day]]

\* getNextMonthDays: the loop runs for day = 1..remainingCells, and not at all
\* when remainingCells < 1.
GetNextMonthDays(firstDayOfMonth, daysInMonth) ==
    LET remainingCells == TotalCells - firstDayOfMonth - daysInMonth
    IN  [day \in 1..remainingCells |-> [kind |-> "next", day |-> day]]

\* renderCalendar: the cells of the grid, in order.
RenderCalendar(view) ==
    LET daysInMonth     == GetDaysInMonth(view.y, view.m)
        firstDayOfMonth == GetFirstDayOfMonth(view.y, view.m)
    IN  GetPrevMonthDays(view)
        \o [day \in 1..daysInMonth |-> [kind |-> "cur", day |-> day]]
        \o GetNextMonthDays(firstDayOfMonth, daysInMonth)

-----------------------------------------------------------------------------
(* TimePicker's 12/24-hour arithmetic and minute options.                     *)

\* useState(date.getHours() >= 12 ? "PM" : "AM")
InitialPeriod(hours) == IF hours >= 12 THEN "PM" ELSE "AM"

\* displayHours
DisplayHours(hours, period) ==
    IF period = "AM"
    THEN (IF hours = 0 THEN 12 ELSE hours)
    ELSE (IF hours = 12 THEN 12 ELSE hours - 12)

\* newHours without the special case of 12 PM.
NewHoursNoNoon(displayHours, period) ==
    IF period = "AM"
    THEN (IF displayHours = 12 THEN 0 ELSE displayHours)
    ELSE displayHours + 12

\* newHours of the commit effect
NewHours(displayHours, period) ==
    IF period = "AM"
    THEN (IF displayHours = 12 THEN 0 ELSE displayHours)
    ELSE (IF displayHours = 12 THEN 12 ELSE displayHours + 12)

\* handleHourChange without the case of 12 AM.
HourChangeKeepsTwelve(value, period) ==
    IF period = "PM" /\ value # 12 THEN value + 12 ELSE value

\* handleHourChange: the hours it stores for the chosen option (1..12).
HourChange(value, period) ==
    IF period = "PM" /\ value # 12 THEN value + 12
    ELSE IF period = "AM" /\ value = 12 THEN 0
    ELSE value

\* handlePeriodChange comparing hours > 12 where the code has hours >= 12.
PeriodChangeStrict(hours, newPeriod) ==
    IF newPeriod = "AM" /\ hours > 12 THEN hours - 12
    ELSE IF newPeriod = "PM" /\ hours < 12 THEN hours + 12
    ELSE hours

\* handlePeriodChange: the hours it leaves in the draft.
PeriodChange(hours, newPeriod) ==
    IF newPeriod = "AM" /\ hours >= 12 THEN hours - 12
    ELSE IF newPeriod = "PM" /\ hours < 12 THEN hours + 12
    ELSE hours

\* validatedMinuteInterval without the test that the interval divides 60.
ValidatedPositiveOnly(interval) ==
    IF interval > 0 THEN interval ELSE 1

\* validatedMinuteInterval
ValidatedMinuteInterval(interval) ==
    IF interval > 0 /\ 60 % interval = 0 THEN interval ELSE 1

\* minuteOptions: Array.from({length: floor(60 / validated)}, (_, i) => i * validated)
MinuteOptions(interval) ==
    LET validated == ValidatedMinuteInterval(interval)
    IN  [i \in 1..(60 \div validated) |-> (i - 1) * validated]

-----------------------------------------------------------------------------
(* Bounds of the model and the inputs the events draw from.                   *)

MaxCount == 2                       \* cap of the observation counters calls and commits
ViewYears == {2024, 2025}           \* years the view cursor may visit (one leap, one not)
ViewMonths == {11, 0, 1, 2}         \* months the view cursor may visit
DayChoices == {15, 31}              \* day cells the user clicks
HourChoices == {9, 12}              \* options of the hour select the user picks
MinuteChoices == {0, 45}            \* options of the minute select the user picks
IntervalChoices == {15}             \* minuteInterval props the host passes
Modes == {"datetime", "date", "time"}
Views == {"date", "time"}
Periods == {"AM", "PM"}

D20240315 == [y |-> 2024, m |-> 2, d |-> 15, h |-> 8, mi |-> 30]
D20250615 == [y |-> 2025, m |-> 5, d |-> 15, h |-> 14, mi |-> 5]
InitialDates == {D20240315, D20250615}   \* initialDate props the host passes
ClockDates == {[y |-> 2024, m |-> 0, d |-> 31, h |-> 10, mi |-> 0]}  \* new Date() at a preset click

-----------------------------------------------------------------------------
(* DateTimePicker.  The host is taken to pass onChange and                    *)
(* showPresetButtons; W is the component tree's state as one record.          *)

W == [mode |-> mode, initialDate |-> initialDate, minuteInterval |-> minuteInterval,
      date |-> date, isOpen |-> isOpen, activeView |-> activeView, dp |-> dp, tp |-> tp,
      calls |-> calls, commits |-> commits, delivered |-> delivered]

\* handleDateChange: the date it computes; it calls setDate when that differs.
HandleDateChange(cur, newDate) ==
    SetDate(SetMonth(SetFullYear(cur, newDate.y), newDate.m), newDate.d)

\* handleTimeChange without its setHours call.
HandleTimeChangeKeepsHour(cur, hours, minutes) ==
    SetMinutes(cur, minutes)

\* handleTimeChange: the date it computes; it calls setDate when that differs.
HandleTimeChange(cur, hours, minutes) ==
    SetMinutes(SetHours(cur, hours), minutes)

\* targetView taken from the argument whatever the mode.
TargetViewAsRequested(md, view, active) == view

\* togglePicker's targetView (every caller passes a view, so view || activeView
\* is view)
TargetView(md, view, active) ==
    IF md = "date" THEN "date" ELSE IF md = "time" THEN "time" ELSE view

\* togglePicker without the branch that closes.
TogglePickerOpensOnly(w, view) ==
    [w EXCEPT !.activeView = TargetView(w.mode, view, w.activeView), !.isOpen = TRUE]

\* togglePicker: the isOpen and activeView it leaves.
TogglePicker(w, view) ==
    LET targetView == TargetView(w.mode, view, w.activeView)
    IN  IF w.isOpen /\ targetView = w.activeView
        THEN [w EXCEPT !.isOpen = FALSE]
        ELSE [w EXCEPT !.activeView = targetView, !.isOpen = TRUE]

\* The mode effect with the branch of mode "date" only.
ModeEffectDateOnly(md, active) ==
    IF md = "date" THEN "date" ELSE active

\* The mode effect: the activeView it sets.
ModeEffect(md, active) ==
    IF md = "date" THEN "date" ELSE IF md = "time" THEN "time" ELSE active

\* The onChange effect without the comparison with initialDate.
OnChangeEffectUnconditional(w) ==
    [w EXCEPT !.calls = @ + 1, !.delivered = w.date]

\* The onChange effect, run when one of [date, onChange, initialDate] changed.
OnChangeEffect(w) ==
    IF w.date # w.initialDate
    THEN [w EXCEPT !.calls = @ + 1, !.delivered = w.date]
    ELSE w

\* DatePicker's state at mount: useState(date) for viewDate and selectedDate.
NewDatePicker(d) ==
    [mounted |-> TRUE, viewDate |-> [y |-> d.y, m |-> d.m],
     selectedDate |-> [y |-> d.y, m |-> d.m, d |-> d.d],
     showYearSelector |-> FALSE, showMonthSelector |-> FALSE]

\* TimePicker's state at mount.
NewTimePicker(d) ==
    [mounted |-> TRUE, hours |-> d.h, minutes |-> d.mi, period |-> InitialPeriod(d.h)]

\* Children that are hidden rather than unmounted: a hidden DatePicker keeps
\* its state.
MountChildrenHidesDatePicker(w) ==
    [w EXCEPT
       !.dp = IF w.dp.mounted THEN w.dp
              ELSE IF w.isOpen /\ w.activeView = "date" THEN NewDatePicker(w.date)
              ELSE Unmounted,
       !.tp = IF w.isOpen /\ w.activeView # "date"
              THEN (IF w.tp.mounted THEN w.tp ELSE NewTimePicker(w.date))
              ELSE Unmounted]

\* The JSX of DateTimePicker: which child is mounted; a child that stays
\* mounted keeps its state, one that is mounted anew starts from date.
MountChildren(w) ==
    [w EXCEPT
       !.dp = IF w.isOpen /\ w.activeView = "date"
              THEN (IF w.dp.mounted THEN w.dp ELSE NewDatePicker(w.date))
              ELSE Unmounted,
       !.tp = IF w.isOpen /\ w.activeView # "date"
              THEN (IF w.tp.mounted THEN w.tp ELSE NewTimePicker(w.date))
              ELSE Unmounted]

\* TimePicker's commit effect: the date handleTimeChange computes from the draft.
TimeEffect(w) ==
    LET displayHours == DisplayHours(w.tp.hours, w.tp.period)
    IN  HandleTimeChange(w.date, NewHours(displayHours, w.tp.period), w.tp.minutes)

RECURSIVE Render(_, _, _)
\* One render of DateTimePicker and the effects of its commit, repeated while
\* an effect sets state.  depsChanged: one of the onChange effect's dependencies
\* changed since the last render; modeChanged: the mode prop did.  TimePicker's
\* effect depends on onChange, which is a new handleTimeChange in every render
\* of the parent, so it runs in each of them (children's effects run first).
Render(w, depsChanged, modeChanged) ==
    LET r       == MountChildren(w)
        t       == IF r.tp.mounted THEN TimeEffect(r) ELSE r.date
        f       == IF depsChanged THEN OnChangeEffect(r) ELSE r
        view    == IF modeChanged THEN ModeEffect(r.mode, r.activeView) ELSE r.activeView
        updated == [f EXCEPT !.date = t,
                             !.commits = IF t # r.date THEN @ + 1 ELSE @,
                             !.activeView = view]
    IN  IF t = r.date /\ view = r.activeView
        THEN f
        ELSE Render(updated, t # r.date, FALSE)

\* A call of setDate(updated) from a handler, and the render that follows.
Commit(w, updated) ==
    IF updated # w.date
    THEN Render([w EXCEPT !.date = updated, !.commits = @ + 1], TRUE, FALSE)
    ELSE w

\* The next state of the component tree is w, within the counters' caps.
Rendered(w) ==
    /\ w.calls <= MaxCount
    /\ w.commits <= MaxCount
    /\ mode' = w.mode
    /\ initialDate' = w.initialDate
    /\ minuteInterval' = w.minuteInterval
    /\ date' = w.date
    /\ isOpen' = w.isOpen
    /\ activeView' = w.activeView
    /\ dp' = w.dp
    /\ tp' = w.tp
    /\ calls' = w.calls
    /\ commits' = w.commits
    /\ delivered' = w.delivered

\* The same on a page with no other picker, or with one that the event does
\* not reach.
Becomes(w) ==
    /\ Rendered(w)
    /\ UNCHANGED <<mountDate, other, fnIn, fnOut>>

-----------------------------------------------------------------------------
(* The state after construction and the mount effects: the onChange effect    *)
(* finds date = initialDate, the mode effect sets the view the mode forces.   *)

Init ==
    /\ mode \in Modes
    /\ initialDate \in InitialDates
    /\ minuteInterval \in IntervalChoices
    /\ date = initialDate
    /\ isOpen = FALSE
    /\ activeView = ModeEffect(mode, "date")
    /\ dp = Unmounted
    /\ tp = Unmounted
    /\ calls = 0
    /\ commits = 0
    /\ delivered = NoValue
    /\ mountDate = initialDate
    /\ other = NoValue
    /\ fnIn = NoValue
    /\ fnOut = NoValue

-----------------------------------------------------------------------------
(* Events on DateTimePicker.                                                   *)

\* The fields the input row renders in mode md, and the tabs the popup renders.
FieldShown(md, view) == IF view = "date" THEN md # "time" ELSE md # "date"

\* A click (or Enter/Space) on the date or the time field of the input row;
\* the date field is rendered unless mode = "time", the time field unless
\* mode = "date".
ClickField(view) ==
    /\ FieldShown(mode, view)
    /\ Becomes(Render(TogglePicker(W, view), FALSE, FALSE))

\* The onClick of a tab: setActiveView(view), and the render that follows.
\* DatePicker and TimePicker keep their state while they stay mounted.
SetActiveView(w, view) == Render([w EXCEPT !.activeView = view], FALSE, FALSE)

\* A click on the Date or Time tab of the open popup.
ClickTab(view) ==
    /\ isOpen
    /\ FieldShown(mode, view)
    /\ Becomes(SetActiveView(W, view))

\* closePicker: setIsOpen(false), and the render that follows.
PickerClosed(w) == Render([w EXCEPT !.isOpen = FALSE], FALSE, FALSE)

\* closePicker, the Done button.
ClosePicker ==
    /\ isOpen
    /\ Becomes(PickerClosed(W))

\* handleClickOutside that leaves the popup open.
OutsideClickIgnored(w) == w

\* handleClickOutside with a target outside pickerRef: setIsOpen(false), and
\* the render that follows.
OutsideClicked(w) == Render([w EXCEPT !.isOpen = FALSE], FALSE, FALSE)

\* handleClickOutside: a mousedown outside pickerRef.
HandleClickOutside ==
    LET closed == OutsideClicked(W)
    IN  Becomes(closed)

\* The preset buttons, rendered while activeView is not "time"; now is new Date().
PresetsShown == isOpen /\ activeView # "time"

PresetTomorrow(now) ==
    /\ PresetsShown
    /\ Becomes(Commit(W, HandleDateChange(date, SetDate(now, now.d + 1))))

PresetWeek(now) ==
    /\ PresetsShown
    /\ Becomes(Commit(W, HandleDateChange(date, SetDate(now, now.d + 7))))

PresetMonth(now) ==
    /\ PresetsShown
    /\ Becomes(Commit(W, HandleDateChange(date, SetMonth(now, now.m + 1))))

\* The host renders the picker again: with a new mode, with a new initialDate
\* object (of the same or another value) and with a new onChange function, or
\* with the ones it passed before.
HostRerender(newMode, newInitial, freshInitial, freshOnChange) ==
    /\ freshInitial \/ newInitial = initialDate
    /\ Becomes(Render([W EXCEPT !.mode = newMode, !.initialDate = newInitial],
                      freshInitial \/ freshOnChange, newMode # mode))

-----------------------------------------------------------------------------
(* Events on DatePicker.                                                       *)

ViewOK(v) == v.y \in ViewYears /\ v.m \in ViewMonths

\* new Date(year, month, 1) as a view date
ViewOf(year, month) == LET t == MakeDate(year, month, 1, 0, 0) IN [y |-> t.y, m |-> t.m]

\* A set of the view date that also selects the first day of the viewed month.
BrowsedAndSelected(w, d) ==
    Commit([w EXCEPT !.dp = d],
           HandleDateChange(w.date, MakeDate(d.viewDate.y, d.viewDate.m, 1, 0, 0)))

\* A set of DatePicker's own state (setViewDate, setShowYearSelector,
\* setShowMonthSelector) renders DatePicker again and nothing else: d is
\* DatePicker's state after the handler.
Browsed(w, d) == [w EXCEPT !.dp = d]

\* handlePrevMonth with the month decremented in place.
PrevMonthNoCarry(d) == [d EXCEPT !.viewDate.m = @ - 1]

\* handlePrevMonth on DatePicker's state d
PrevMonth(d) == [d EXCEPT !.viewDate = ViewOf(d.viewDate.y, d.viewDate.m - 1)]

\* handleNextMonth on DatePicker's state d
NextMonth(d) == [d EXCEPT !.viewDate = ViewOf(d.viewDate.y, d.viewDate.m + 1)]

\* handleYearClick without setShowYearSelector(false).
YearClickKeepsSelector(d, year) == [d EXCEPT !.viewDate = ViewOf(year, d.viewDate.m)]

\* handleYearClick on DatePicker's state d
YearClick(d, year) ==
    [d EXCEPT !.viewDate = ViewOf(year, d.viewDate.m), !.showYearSelector = FALSE]

\* handleMonthClick on DatePicker's state d
MonthClick(d, monthIndex) ==
    [d EXCEPT !.viewDate = ViewOf(d.viewDate.y, monthIndex), !.showMonthSelector = FALSE]

\* toggleYearSelector without the close of the month selector.
YearSelectorToggledAlone(d) == [d EXCEPT !.showYearSelector = ~d.showYearSelector]

\* toggleYearSelector on DatePicker's state d
YearSelectorToggled(d) ==
    [d EXCEPT !.showMonthSelector = IF d.showMonthSelector THEN FALSE ELSE @,
              !.showYearSelector = ~d.showYearSelector]

\* toggleMonthSelector on DatePicker's state d
MonthSelectorToggled(d) ==
    [d EXCEPT !.showYearSelector = IF d.showYearSelector THEN FALSE ELSE @,
              !.showMonthSelector = ~d.showMonthSelector]

HandlePrevMonth ==
    /\ dp.mounted
    /\ ViewOK(PrevMonth(dp).viewDate)
    /\ Becomes(Browsed(W, PrevMonth(dp)))

HandleNextMonth ==
    /\ dp.mounted
    /\ ViewOK(NextMonth(dp).viewDate)
    /\ Becomes(Browsed(W, NextMonth(dp)))

\* A click on a year of the year grid, which renderSelector shows while
\* showYearSelector is set.
HandleYearClick(year) ==
    /\ dp.mounted
    /\ dp.showYearSelector
    /\ ViewOK(YearClick(dp, year).viewDate)
    /\ Becomes(Browsed(W, YearClick(dp, year)))

\* A click on a month of the month grid, shown while showMonthSelector is set
\* and showYearSelector is not.
HandleMonthClick(monthIndex) ==
    /\ dp.mounted
    /\ ~dp.showYearSelector
    /\ dp.showMonthSelector
    /\ ViewOK(MonthClick(dp, monthIndex).viewDate)
    /\ Becomes(Browsed(W, MonthClick(dp, monthIndex)))

\* handleDateClick's newDate
ClickedDate(view, day) == MakeDate(view.y, view.m, day, 0, 0)

\* A click on a day cell of the current month, rendered by renderCalendar
\* while no selector is shown.
HandleDateClick(day) ==
    /\ dp.mounted
    /\ ~dp.showYearSelector
    /\ ~dp.showMonthSelector
    /\ day \in 1..GetDaysInMonth(dp.viewDate.y, dp.viewDate.m)
    /\ LET newDate == ClickedDate(dp.viewDate, day)
       IN  Becomes(Commit([W EXCEPT !.dp.selectedDate =
                                      [y |-> newDate.y, m |-> newDate.m, d |-> newDate.d]],
                          HandleDateChange(date, newDate)))

\* A click on the year of the header
ToggleYearSelector ==
    /\ dp.mounted
    /\ Becomes(Browsed(W, YearSelectorToggled(dp)))

\* A click on the month of the header
ToggleMonthSelector ==
    /\ dp.mounted
    /\ Becomes(Browsed(W, MonthSelectorToggled(dp)))

-----------------------------------------------------------------------------
(* Events on TimePicker.  A change of the draft re-renders TimePicker, whose   *)
(* effect hands the draft to handleTimeChange.                                 *)

DraftChanged(w) == Commit(w, TimeEffect(w))

\* The range of a sequence
Range(seq) == {seq[i] : i \in DOMAIN seq}

HandleHourChange(value) ==
    /\ tp.mounted
    /\ value \in 1..12
    /\ Becomes(DraftChanged([W EXCEPT !.tp.hours = HourChange(value, tp.period)]))

HandleMinuteChange(value) ==
    /\ tp.mounted
    /\ value \in Range(MinuteOptions(minuteInterval))
    /\ Becomes(DraftChanged([W EXCEPT !.tp.minutes = value]))

HandlePeriodChange(newPeriod) ==
    /\ tp.mounted
    /\ Becomes(DraftChanged([W EXCEPT !.tp.period = newPeriod,
                                      !.tp.hours = PeriodChange(tp.hours, newPeriod)]))

-----------------------------------------------------------------------------

Next ==
    \/ \E view \in Views : ClickField(view)
    \/ \E view \in Views : ClickTab(view)
    \/ ClosePicker
    \/ HandleClickOutside
    \/ \E now \in ClockDates : PresetTomorrow(now)
    \/ \E now \in ClockDates : PresetWeek(now)
    \/ \E now \in ClockDates : PresetMonth(now)
    \/ \E newMode \in Modes, newInitial \in InitialDates, freshInitial, freshOnChange \in BOOLEAN :
          HostRerender(newMode, newInitial, freshInitial, freshOnChange)
    \/ HandlePrevMonth
    \/ HandleNextMonth
    \/ \E year \in ViewYears : HandleYearClick(year)
    \/ \E monthIndex \in ViewMonths : HandleMonthClick(monthIndex)
    \/ \E day \in DayChoices : HandleDateClick(day)
    \/ ToggleYearSelector
    \/ ToggleMonthSelector
    \/ \E value \in HourChoices : HandleHourChange(value)
    \/ \E value \in MinuteChoices : HandleMinuteChange(value)
    \/ \E newPeriod \in Periods : HandlePeriodChange(newPeriod)

Spec == Init /\ [][Next]_vars

-----------------------------------------------------------------------------
(* The arithmetic on its own: an input is drawn, the function is applied.     *)

MaxInterval == 61        \* minute intervals -MaxInterval..MaxInterval are tried
FirstGridYear == 2019    \* calendar grids are rendered for every month of
LastGridYear == 2026     \* FirstGridYear..LastGridYear

MathInputs ==
    [fn : {"hour"}, h : 0..23]
    \cup [fn : {"period"}, h : 0..23, newPeriod : Periods]
    \cup [fn : {"interval"}, interval : (0 - MaxInterval)..MaxInterval]
    \cup [fn : {"grid"}, y : FirstGridYear..LastGridYear, m : 0..11]
    \cup [fn : {"week"}, y : FirstGridYear..LastGridYear, m : 0..11, firstDayOfWeek : 0..6]
    \cup [fn : {"draft"}, h : 0..23, mi : {0, 5}, interval : {15}]
    \cup [fn : {"nav"}, y : FirstGridYear..LastGridYear, m : 0..11]

MathInit ==
    /\ fnIn \in MathInputs
    /\ fnOut = NoValue
    /\ mode = "datetime"
    /\ initialDate = D20240315
    /\ minuteInterval = 15
    /\ date = initialDate
    /\ isOpen = FALSE
    /\ activeView = "date"
    /\ dp = Unmounted
    /\ tp = Unmounted
    /\ calls = 0
    /\ commits = 0
    /\ delivered = NoValue
    /\ mountDate = initialDate
    /\ other = NoValue

\* TimePicker mounted on hour h: the hour and period it displays, and the
\* 24-hour value its commit effect computes back.
ShowHour ==
    /\ fnIn.fn = "hour"
    /\ fnOut = NoValue
    /\ LET period  == InitialPeriod(fnIn.h)
           display == DisplayHours(fnIn.h, period)
       IN  fnOut' = [display |-> display, period |-> period,
                     hour24 |-> NewHours(display, period)]
    /\ UNCHANGED <<widgetVars, fnIn>>

\* handlePeriodChange on a draft of hour h, and what is displayed before and after.
SwitchPeriod ==
    /\ fnIn.fn = "period"
    /\ fnOut = NoValue
    /\ LET hours == PeriodChange(fnIn.h, fnIn.newPeriod)
       IN  fnOut' = [hours |-> hours,
                     displayBefore |-> DisplayHours(fnIn.h, InitialPeriod(fnIn.h)),
                     displayAfter |-> DisplayHours(hours, fnIn.newPeriod)]
    /\ UNCHANGED <<widgetVars, fnIn>>

\* TimePicker rendered with a minuteInterval.
ListMinutes ==
    /\ fnIn.fn = "interval"
    /\ fnOut = NoValue
    /\ fnOut' = [options |-> MinuteOptions(fnIn.interval)]
    /\ UNCHANGED <<widgetVars, fnIn>>

\* DatePicker's grid rendered for a view date.
ShowGrid ==
    /\ fnIn.fn = "grid"
    /\ fnOut = NoValue
    /\ LET view  == [y |-> fnIn.y, m |-> fnIn.m]
           first == GetFirstDayOfMonth(view.y, view.m)
           days  == GetDaysInMonth(view.y, view.m)
       IN  fnOut' = [leading |-> Len(GetPrevMonthDays(view)),
                     days |-> days,
                     trailing |-> Len(GetNextMonthDays(first, days)),
                     remaining |-> TotalCells - first - days,
                     cells |-> Len(RenderCalendar(view))]
    /\ UNCHANGED <<widgetVars, fnIn>>

\* The props DateTimePicker renders DatePicker with: date (with onChange and
\* the colours); firstDayOfWeek is destructured and handed to no child.
DatePickerProps(d, firstDayOfWeek) == [date |-> d]

\* The header row of the calendar: the weekday of each column, 0 for "Su".
WeekdayHeader(props) == <<0, 1, 2, 3, 4, 5, 6>>

\* DateTimePicker rendered with a firstDayOfWeek, open on the date view: the
\* header row and the cells of the previous month its DatePicker shows.
ShowWeekdays ==
    /\ fnIn.fn = "week"
    /\ fnOut = NoValue
    /\ LET props == DatePickerProps(MakeDate(fnIn.y, fnIn.m, 1, 0, 0), fnIn.firstDayOfWeek)
           view  == NewDatePicker(props.date).viewDate
       IN  fnOut' = [header |-> WeekdayHeader(props),
                     leading |-> Len(GetPrevMonthDays(view))]
    /\ UNCHANGED <<widgetVars, fnIn>>

\* TimePicker mounted with a date of hour h and minute mi: its draft.
MountTimePicker ==
    /\ fnIn.fn = "draft"
    /\ fnOut = NoValue
    /\ fnOut' = NewTimePicker([D20240315 EXCEPT !.h = fnIn.h, !.mi = fnIn.mi])
    /\ UNCHANGED <<widgetVars, fnIn>>

\* handleHourChange on the draft
DraftHour(value) ==
    /\ fnIn.fn = "draft"
    /\ fnOut # NoValue
    /\ fnOut' = [fnOut EXCEPT !.hours = HourChange(value, fnOut.period)]
    /\ UNCHANGED <<widgetVars, fnIn>>

\* handleMinuteChange on the draft
DraftMinute(value) ==
    /\ fnIn.fn = "draft"
    /\ fnOut # NoValue
    /\ value \in Range(MinuteOptions(fnIn.interval))
    /\ fnOut' = [fnOut EXCEPT !.minutes = value]
    /\ UNCHANGED <<widgetVars, fnIn>>

\* handlePeriodChange on the draft
DraftPeriod(newPeriod) ==
    /\ fnIn.fn = "draft"
    /\ fnOut # NoValue
    /\ fnOut' = [fnOut EXCEPT !.period = newPeriod,
                              !.hours = PeriodChange(fnOut.hours, newPeriod)]
    /\ UNCHANGED <<widgetVars, fnIn>>

\* DatePicker mounted with a date of year y and month m.
MountDatePicker ==
    /\ fnIn.fn = "nav"
    /\ fnOut = NoValue
    /\ fnOut' = NewDatePicker(MakeDate(fnIn.y, fnIn.m, 15, 0, 0))
    /\ UNCHANGED <<widgetVars, fnIn>>

\* handlePrevMonth, while the view stays within the years of the grids
NavPrev ==
    /\ fnIn.fn = "nav"
    /\ fnOut # NoValue
    /\ PrevMonth(fnOut).viewDate.y \in FirstGridYear..LastGridYear
    /\ fnOut' = PrevMonth(fnOut)
    /\ UNCHANGED <<widgetVars, fnIn>>

\* handleNextMonth, while the view stays within the years of the grids
NavNext ==
    /\ fnIn.fn = "nav"
    /\ fnOut # NoValue
    /\ NextMonth(fnOut).viewDate.y \in FirstGridYear..LastGridYear
    /\ fnOut' = NextMonth(fnOut)
    /\ UNCHANGED <<widgetVars, fnIn>>

MathNext ==
    \/ ShowHour
    \/ SwitchPeriod
    \/ ListMinutes
    \/ ShowGrid
    \/ ShowWeekdays
    \/ MountTimePicker
    \/ \E value \in 1..12 : DraftHour(value)
    \/ \E value \in 0..59 : DraftMinute(value)
    \/ \E newPeriod \in Periods : DraftPeriod(newPeriod)
    \/ MountDatePicker
    \/ NavPrev
    \/ NavNext

SpecMath == MathInit /\ [][MathNext]_vars

-----------------------------------------------------------------------------
(* Properties.                                                                 *)

\* C1: a day-cell click on day `day` of the viewed month commits a value whose
\* year, month and day are the viewed year, the viewed month and `day`, and
\* whose hour and minute are those of the value committed before.
SetDatePartCommitsTarget ==
    [][\A day \in DayChoices :
          HandleDateClick(day) =>
             /\ date'.y = dp.viewDate.y
             /\ date'.m = dp.viewDate.m
             /\ date'.d = day
             /\ date'.h = date.h
             /\ date'.mi = date.mi]_vars

\* C2: while the time view is shown, handleTimeChange(h, mi) of the committed
\* value is that value with hour h and minute mi and the same year, month and
\* day, for all h in 0..23 and mi in 0..59; the committed value has the hour
\* and minute of the draft; and a committed value other than initialDate has
\* been handed to the change callback.
SetTimePartKeepsDate ==
    tp.mounted =>
       /\ \A h \in 0..23, mi \in 0..59 :
             HandleTimeChange(date, h, mi) =
                [y |-> date.y, m |-> date.m, d |-> date.d, h |-> h, mi |-> mi]
       /\ date.h = tp.hours
       /\ date.mi = tp.minutes
       /\ date # initialDate => delivered = date

\* C2's case: constructed on 2025-06-15T14:05, the time view has committed
\* 09:05 of the same day and the callback has fired with it.
SetTimePartExample ==
    /\ mountDate = D20250615
    /\ tp.mounted
    /\ tp.hours = 9
    /\ date = [y |-> 2025, m |-> 5, d |-> 15, h |-> 9, mi |-> 5]
    /\ delivered = date
    /\ calls > 0

\* C3: a step invokes the change callback only if it commits a value that
\* differs from the value committed before and from the initial instant the
\* component was constructed with.
CallbackOnlyOnNewValue ==
    [][calls' > calls => (date' # date /\ date' # mountDate)]_vars

\* C4: the change callback has been invoked at most as often as a mutation was
\* committed, and an invocation carries the committed value.
CallbackOncePerCommit ==
    [][/\ calls' <= commits'
       /\ calls' > calls => delivered' = date']_vars

\* C5: clicking the same day cell twice in a row commits the same value as
\* clicking it once: handleDateChange applied to its own result with the same
\* target computes that result again, so the second click sets nothing.
SetDatePartTwiceIsOnce ==
    dp.mounted =>
       \A day \in DayChoices \cap (1..GetDaysInMonth(dp.viewDate.y, dp.viewDate.m)) :
          LET target == ClickedDate(dp.viewDate, day)
              once   == HandleDateChange(date, target)
          IN  HandleDateChange(once, target) = once

\* C6: the hour and period TimePicker displays for h convert back to h.
HourRoundTrip ==
    (fnIn.fn = "hour" /\ fnOut # NoValue) =>
       /\ fnOut.hour24 = fnIn.h
       /\ fnOut.display \in 1..12

\* C6's case: 12 is displayed as 12 PM and converted back to 12.
HourRoundTripNoon ==
    /\ fnIn.fn = "hour"
    /\ fnIn.h = 12
    /\ fnOut # NoValue
    /\ fnOut.display = 12
    /\ fnOut.period = "PM"
    /\ fnOut.hour24 = 12

\* C7: switching the period of hour h to AM gives h - 12 when h >= 12, to PM
\* gives h + 12 when h < 12, to the period of h gives h; the hour displayed is
\* the same before and after, and the result is in 0..23.
PeriodSwitchShifts ==
    (fnIn.fn = "period" /\ fnOut # NoValue) =>
       /\ (fnIn.newPeriod = "AM" /\ fnIn.h >= 12) => fnOut.hours = fnIn.h - 12
       /\ (fnIn.newPeriod = "PM" /\ fnIn.h < 12) => fnOut.hours = fnIn.h + 12
       /\ fnIn.newPeriod = InitialPeriod(fnIn.h) => fnOut.hours = fnIn.h
       /\ fnOut.displayAfter = fnOut.displayBefore
       /\ fnOut.hours \in 0..23

\* C7's case: 12 PM switched to AM is hour 0, displayed as 12.
PeriodSwitchNoonToAM ==
    /\ fnIn.fn = "period"
    /\ fnIn.h = 12
    /\ fnIn.newPeriod = "AM"
    /\ fnOut # NoValue
    /\ fnOut.hours = 0
    /\ fnOut.displayAfter = 12

\* C8: for a positive interval dividing 60 the minute options are 0, interval,
\* 2*interval, ... below 60; for every other interval they are 0, 1, ..., 59.
MinuteOptionsPerInterval ==
    (fnIn.fn = "interval" /\ fnOut # NoValue) =>
       LET k   == fnIn.interval
           out == fnOut.options
       IN  IF k > 0 /\ 60 % k = 0
           THEN /\ Len(out) * k = 60
                /\ \A i \in 1..Len(out) : out[i] = (i - 1) * k
           ELSE /\ Len(out) = 60
                /\ \A i \in 1..60 : out[i] = i - 1

\* C8's cases: 7 falls back to every minute (and 15 gives 0, 15, 30, 45).
MinuteOptionsFallback ==
    /\ fnIn.fn = "interval"
    /\ fnIn.interval = 7
    /\ fnOut # NoValue
    /\ Len(fnOut.options) = 60
    /\ MinuteOptions(15) = <<0, 15, 30, 45>>

\* C9: the grid of (year, month) has as many leading filler cells as the
\* weekday of the 1st, and leading + days of the month + trailing = 42 cells,
\* the trailing count 42 - weekday - days being at least 0.
GridHasTotalCells ==
    (fnIn.fn = "grid" /\ fnOut # NoValue) =>
       /\ fnOut.leading = GetFirstDayOfMonth(fnIn.y, fnIn.m)
       /\ fnOut.days = MonthLength(fnIn.y, fnIn.m)
       /\ fnOut.leading + fnOut.days + fnOut.trailing = 42
       /\ fnOut.cells = 42
       /\ fnOut.remaining >= 0
       /\ fnOut.trailing = fnOut.remaining

\* C9's case: February 2024 (leap) starts on a Thursday: 4 + 29 + 9 cells.
GridOfLeapFebruary ==
    /\ fnIn = [fn |-> "grid", y |-> 2024, m |-> 1]
    /\ fnOut # NoValue
    /\ fnOut.leading = 4
    /\ fnOut.days = 29
    /\ fnOut.trailing = 9

\* C10: in date-only (time-only) mode togglePicker leaves the same state for
\* either requested view as for "date" ("time"), and on a closed picker that
\* state is open on the date (time) view with no overlay.
ModeOverridesRequestedView ==
    /\ mode = "date" =>
          \A view \in Views :
             LET r == Render(TogglePicker(W, view), FALSE, FALSE)
             IN  /\ r = Render(TogglePicker(W, "date"), FALSE, FALSE)
                 /\ ~isOpen => /\ r.isOpen
                               /\ r.activeView = "date"
                               /\ r.dp.mounted
                               /\ ~r.dp.showYearSelector
                               /\ ~r.dp.showMonthSelector
                               /\ ~r.tp.mounted
    /\ mode = "time" =>
          \A view \in Views :
             LET r == Render(TogglePicker(W, view), FALSE, FALSE)
             IN  /\ r = Render(TogglePicker(W, "time"), FALSE, FALSE)
                 /\ ~isOpen => /\ r.isOpen
                               /\ r.activeView = "time"
                               /\ r.tp.mounted
                               /\ ~r.dp.mounted

\* C10's case: in date-only mode a toggle has opened the picker on the date
\* view with no overlay.
DateModeOpenOnDate ==
    /\ mode = "date"
    /\ isOpen
    /\ activeView = "date"
    /\ dp.mounted
    /\ ~dp.showYearSelector
    /\ ~dp.showMonthSelector
    /\ ~tp.mounted

-----------------------------------------------------------------------------
(* The popup and its views.                                                    *)

\* C11: on an open picker whose active view is the target view of the clicked
\* field, togglePicker leaves the picker closed with both children unmounted,
\* and the committed date, the count of callbacks and the value delivered as
\* they were.
ToggleSameViewCloses ==
    isOpen =>
       \A view \in Views :
          (FieldShown(mode, view) /\ TargetView(mode, view, activeView) = activeView) =>
             LET r == Render(TogglePicker(W, view), FALSE, FALSE)
             IN  /\ ~r.isOpen
                 /\ r.activeView = activeView
                 /\ r.dp = Unmounted
                 /\ r.tp = Unmounted
                 /\ r.date = date
                 /\ r.calls = calls
                 /\ r.commits = commits
                 /\ r.delivered = delivered

\* C11's case: a picker open on the time view with a committed date that is
\* not the initial one, where a click on the time field closes it.
OpenOnTimeAfterCommit ==
    /\ mode = "datetime"
    /\ isOpen
    /\ activeView = "time"
    /\ tp.mounted
    /\ date # mountDate
    /\ commits > 0
    /\ TargetView(mode, "time", activeView) = activeView

\* C12: on a closed picker, or on one open on another view than the target
\* view of the clicked field, togglePicker leaves the picker open on the
\* target view with the child of that view mounted, the other unmounted and
\* neither the year nor the month selector shown; a closed picker holds no
\* DatePicker state.
ToggleOpensWithoutOverlay ==
    /\ ~isOpen => dp = Unmounted /\ tp = Unmounted
    /\ \A view \in Views :
          LET targetView == TargetView(mode, view, activeView)
              r          == Render(TogglePicker(W, view), FALSE, FALSE)
          IN  (FieldShown(mode, view) /\ (~isOpen \/ targetView # activeView)) =>
                 /\ r.isOpen
                 /\ r.activeView = targetView
                 /\ targetView = "date" => /\ r.dp.mounted
                                           /\ ~r.dp.showYearSelector
                                           /\ ~r.dp.showMonthSelector
                                           /\ r.tp = Unmounted
                 /\ targetView = "time" => /\ r.tp.mounted
                                           /\ r.dp = Unmounted

\* C12's case: the year selector is shown on an open picker whose time field
\* switches the view, after a day of another month than the initial one was
\* chosen.
YearSelectorShownBeforeSwitch ==
    /\ mode = "datetime"
    /\ isOpen
    /\ activeView = "date"
    /\ dp.mounted
    /\ dp.showYearSelector
    /\ date.m # mountDate.m
    /\ TargetView(mode, "time", activeView) # activeView

\* C13: on an open picker a click on a rendered tab leaves activeView on the
\* view of the tab and neither the year nor the month selector shown.
TabClickClearsOverlay ==
    isOpen =>
       \A view \in Views :
          FieldShown(mode, view) =>
             LET r == SetActiveView(W, view)
             IN  /\ r.isOpen
                 /\ r.activeView = view
                 /\ r.dp.mounted => (~r.dp.showYearSelector /\ ~r.dp.showMonthSelector)

-----------------------------------------------------------------------------
(* The year and month selectors of DatePicker.                                 *)

\* Neither selector is shown in DatePicker's state d
NoSelectorShown(d) == ~d.showYearSelector /\ ~d.showMonthSelector

\* C14: a mounted DatePicker never shows the year and the month selector
\* together; toggleYearSelector (toggleMonthSelector) on a state where that
\* selector is not shown leaves it the only one shown, on a state where it is
\* shown leaves none shown, toggleYearSelector followed by toggleMonthSelector
\* leaves the month selector the only one shown, and neither moves the view
\* date or the selected date.
AtMostOneSelector ==
    dp.mounted =>
       LET y  == YearSelectorToggled(dp)
           m  == MonthSelectorToggled(dp)
           ym == MonthSelectorToggled(y)
       IN  /\ ~(dp.showYearSelector /\ dp.showMonthSelector)
           /\ IF dp.showYearSelector
              THEN NoSelectorShown(y)
              ELSE y.showYearSelector /\ ~y.showMonthSelector
           /\ IF dp.showMonthSelector
              THEN NoSelectorShown(m)
              ELSE m.showMonthSelector /\ ~m.showYearSelector
           /\ ym.showMonthSelector /\ ~ym.showYearSelector
           /\ \A d \in {y, m, ym} : /\ d.mounted
                                    /\ d.viewDate = dp.viewDate
                                    /\ d.selectedDate = dp.selectedDate

\* C14's case: the month selector alone is shown, on a view whose year was
\* chosen from the year selector before.
MonthSelectorAfterYearChoice ==
    /\ dp.mounted
    /\ dp.showMonthSelector
    /\ ~dp.showYearSelector
    /\ dp.viewDate.y # date.y
    /\ dp.viewDate.m = date.m
    /\ commits = 0

\* A step that changes the state of a DatePicker that stays mounted
DatePickerStep == dp.mounted /\ dp'.mounted /\ dp' # dp

\* C15: a click on a year of the year selector leaves the view date on that
\* year and the month it had, a click on a month of the month selector leaves
\* it on that month and the year it had; after either no selector is shown,
\* the picker is open on the date view, and the selected date, the committed
\* date and the callbacks are as they were.  (Either click changes the state
\* of the mounted DatePicker, the selector it was made in being shown before.)
SelectorChoiceSetsView ==
    [][/\ \A year \in ViewYears :
             (DatePickerStep /\ HandleYearClick(year)) =>
                /\ dp'.viewDate = [y |-> year, m |-> dp.viewDate.m]
                /\ NoSelectorShown(dp')
                /\ dp'.mounted /\ isOpen' /\ activeView' = "date"
                /\ dp'.selectedDate = dp.selectedDate
                /\ UNCHANGED <<date, calls, commits, delivered>>
       /\ \A monthIndex \in ViewMonths :
             (DatePickerStep /\ HandleMonthClick(monthIndex)) =>
                /\ dp'.viewDate = [y |-> dp.viewDate.y, m |-> monthIndex]
                /\ NoSelectorShown(dp')
                /\ dp'.mounted /\ isOpen' /\ activeView' = "date"
                /\ dp'.selectedDate = dp.selectedDate
                /\ UNCHANGED <<date, calls, commits, delivered>>
      ]_vars

\* C15's case: the calendar shows the month of the committed date in another
\* year, which only a click in the year selector reaches from the view the
\* DatePicker is mounted with.
ViewOnChosenYear ==
    /\ isOpen
    /\ activeView = "date"
    /\ dp.mounted
    /\ NoSelectorShown(dp)
    /\ date = D20240315
    /\ commits = 0
    /\ dp.viewDate = [y |-> 2025, m |-> 2]

-----------------------------------------------------------------------------
(* Closing.                                                                    *)

\* C16: from every state closePicker leaves the picker closed with both
\* children unmounted and the view, the committed date, the callbacks and
\* the value delivered as they were; on the state it leaves it changes
\* nothing; and handleClickOutside with a target outside the picker leaves
\* the state closePicker leaves.
CloseForcesClosed ==
    LET c == PickerClosed(W)
        o == OutsideClicked(W)
    IN  /\ ~c.isOpen
        /\ c.dp = Unmounted
        /\ c.tp = Unmounted
        /\ c = [W EXCEPT !.isOpen = FALSE, !.dp = Unmounted, !.tp = Unmounted]
        /\ PickerClosed(c) = c
        /\ o = c
        /\ OutsideClicked(o) = o
        /\ ~isOpen => c = W

\* C16's case: a picker open on the time view with a draft of the time
\* picker committed, which closePicker and a click outside close.
OpenWithCommittedTime ==
    /\ isOpen
    /\ activeView = "time"
    /\ tp.mounted
    /\ date.h # mountDate.h
    /\ date.d = mountDate.d
    /\ calls > 0

-----------------------------------------------------------------------------
(* The mode and the view.                                                      *)

\* C17: in every state with mode "date" the active view is "date" and no
\* TimePicker is mounted, with mode "time" it is "time" and no DatePicker is
\* mounted; and a render with a new mode "date" or "time" leaves the picker
\* open or closed as it was, on the view of that mode, with the committed
\* date as it was.
ModeForcesActiveView ==
    /\ mode = "date" => (activeView = "date" /\ tp = Unmounted)
    /\ mode = "time" => (activeView = "time" /\ dp = Unmounted)
    /\ \A newMode \in {"date", "time"} :
          LET r == Render([W EXCEPT !.mode = newMode], FALSE, newMode # mode)
          IN  /\ r.mode = newMode
              /\ r.activeView = newMode
              /\ r.isOpen = isOpen
              /\ r.dp.mounted = (isOpen /\ newMode = "date")
              /\ r.tp.mounted = (isOpen /\ newMode = "time")
              /\ r.date = date

\* C17's case: the picker is open in mode "date" on the date view after a
\* time was committed, which only the time view of another mode allows.
DateModeAfterTimeCommit ==
    /\ mode = "date"
    /\ isOpen
    /\ activeView = "date"
    /\ dp.mounted
    /\ date.h # mountDate.h

-----------------------------------------------------------------------------
(* Browsing and committing.                                                    *)

\* The steps that browse the calendar
BrowseStep ==
    \/ HandlePrevMonth
    \/ HandleNextMonth
    \/ ToggleYearSelector
    \/ ToggleMonthSelector
    \/ \E year \in ViewYears : HandleYearClick(year)
    \/ \E monthIndex \in ViewMonths : HandleMonthClick(monthIndex)

\* The steps that choose a day cell, a preset or a time
ChoiceStep ==
    \/ \E day \in DayChoices : HandleDateClick(day)
    \/ \E now \in ClockDates : PresetTomorrow(now) \/ PresetWeek(now) \/ PresetMonth(now)
    \/ \E value \in HourChoices : HandleHourChange(value)
    \/ \E value \in MinuteChoices : HandleMinuteChange(value)
    \/ \E newPeriod \in Periods : HandlePeriodChange(newPeriod)

\* C18: a step of handlePrevMonth, handleNextMonth, toggleYearSelector,
\* toggleMonthSelector, handleYearClick or handleMonthClick changes nothing
\* but the view date and the selector flags of DatePicker: the committed date,
\* the callbacks, the value delivered and the selected date are as they were;
\* and every step that changes the committed date is a click on a day cell or
\* a preset, or a change of the hour, the minute or the period.  (Each of the
\* six handlers changes the state of the mounted DatePicker.)
BrowsingCommitsNothing ==
    [][/\ (DatePickerStep /\ BrowseStep) =>
             /\ UNCHANGED <<date, calls, commits, delivered>>
             /\ UNCHANGED <<mode, initialDate, minuteInterval, isOpen, activeView, tp>>
             /\ dp'.mounted
             /\ dp'.selectedDate = dp.selectedDate
       /\ date' # date => ChoiceStep
      ]_vars

\* C18's case: the view was browsed to another year and another month than
\* those of the committed date and the year selector is shown, with nothing
\* committed and no callback made.
BrowsedAwayUncommitted ==
    /\ dp.mounted
    /\ dp.viewDate.y # date.y
    /\ dp.viewDate.m # date.m
    /\ dp.showYearSelector
    /\ date = mountDate
    /\ commits = 0
    /\ calls = 0
    /\ delivered = NoValue

-----------------------------------------------------------------------------
(* The view date of DatePicker.                                                *)

\* The steps that move the view date
NavigationStep ==
    \/ HandlePrevMonth
    \/ HandleNextMonth
    \/ \E year \in ViewYears : HandleYearClick(year)
    \/ \E monthIndex \in ViewMonths : HandleMonthClick(monthIndex)

\* C19: while DatePicker is mounted only handlePrevMonth, handleNextMonth,
\* handleYearClick and handleMonthClick change the view date; and from every
\* state with the date view shown, closePicker followed by a click on the date
\* field, and a click on the Time tab followed by a click on the Date tab,
\* leave the view date on the year and month it was on.
ViewDateSurvivesReopen ==
    [][/\ (dp.mounted /\ dp'.mounted /\ dp'.viewDate # dp.viewDate) => NavigationStep
       /\ dp.mounted =>
             LET reopened == Render(TogglePicker(PickerClosed(W), "date"), FALSE, FALSE)
                 back     == SetActiveView(SetActiveView(W, "time"), "date")
             IN  /\ reopened.dp.mounted
                 /\ reopened.dp.viewDate = dp.viewDate
                 /\ mode = "datetime" => (back.dp.mounted /\ back.dp.viewDate = dp.viewDate)
      ]_vars

-----------------------------------------------------------------------------
(* The first day of the week.                                                  *)

\* C20: a picker rendered with firstDayOfWeek = k shows a header row whose
\* columns are the weekdays k, k + 1, ... (modulo 7), and before the first day
\* of the month (GetFirstDayOfMonth - k) modulo 7 cells of the previous month.
FirstDayOfWeekSetsGrid ==
    (fnIn # NoValue /\ fnIn.fn = "week" /\ fnOut # NoValue) =>
       LET k == fnIn.firstDayOfWeek
       IN  /\ fnOut.header[1] = k
           /\ \A i \in 1..7 : fnOut.header[i] = (k + i - 1) % 7
           /\ fnOut.leading = (GetFirstDayOfMonth(fnIn.y, fnIn.m) - k) % 7

-----------------------------------------------------------------------------
(* The selectable range.                                                       *)

\* The minDate and maxDate props the host passes (DateTimePickerProps); both
\* initial dates lie between them.  DateTimePicker does not destructure them
\* and no handler reads them.
minDate == [y |-> 2024, m |-> 2, d |-> 1, h |-> 0, mi |-> 0]
maxDate == [y |-> 2025, m |-> 5, d |-> 30, h |-> 23, mi |-> 59]

\* Date.prototype.getTime, in minutes
GetTime(t) == (DayNumber(t.y, t.m, t.d) * 24 + t.h) * 60 + t.mi

\* C21: the committed date is never earlier than minDate nor later than
\* maxDate.
CommittedWithinMinMax ==
    /\ GetTime(minDate) <= GetTime(date)
    /\ GetTime(date) <= GetTime(maxDate)

-----------------------------------------------------------------------------
(* The presets.                                                                *)

\* The customPresets prop the host passes (DateTimePickerProps): one entry
\* with a fixed instant.  DateTimePicker does not destructure it.
customPresets == <<[label |-> "Mid 2025", value |-> D20250615]>>

\* The labels of the preset buttons the popup renders
PresetButtons == <<"Tomorrow", "Week", "Month">>

\* C22: a click on Tomorrow with the clock on now commits the day after now's
\* with the hour and minute of the committed date, and while the presets are
\* shown each entry of customPresets is one of the buttons.
PresetsAppliedAtClick ==
    [][/\ \A now \in ClockDates :
             (date' # date /\ PresetTomorrow(now)) =>
                date' = MakeDate(now.y, now.m, now.d + 1, date.h, date.mi)
       /\ PresetsShown =>
             \A i \in DOMAIN customPresets :
                customPresets[i].label \in Range(PresetButtons)
      ]_vars

-----------------------------------------------------------------------------
(* Two pickers on one page.  Each DateTimePicker registers its own             *)
(* handleClickOutside on the document; an event made with the pointer inside  *)
(* one picker starts with a mousedown whose target is outside the pickerRef of *)
(* the other, an event made with the keyboard (Enter or Space on a field or a  *)
(* button, the keys of a select) has no mousedown.                             *)

\* A DateTimePicker after construction and its mount effects.
Constructed(md, d, interval) ==
    [mode |-> md, initialDate |-> d, minuteInterval |-> interval,
     date |-> d, isOpen |-> FALSE, activeView |-> ModeEffect(md, "date"),
     dp |-> Unmounted, tp |-> Unmounted,
     calls |-> 0, commits |-> 0, delivered |-> NoValue]

\* A document listener that closes on the keys as well.
HeardOnEveryEvent(w, pointer) == OutsideClicked(w)

\* What the document listener of the picker with tree w makes of an event
\* inside another picker.
Heard(w, pointer) == IF pointer THEN OutsideClicked(w) ELSE w

\* An event inside this picker that leaves its tree w.
InsideThis(w, pointer) ==
    /\ Rendered(w)
    /\ other' = Heard(other, pointer)
    /\ UNCHANGED <<mountDate, fnIn, fnOut>>

\* An event inside the other picker that leaves its tree o.
InsideOther(o, pointer) ==
    /\ Rendered(Heard(W, pointer))
    /\ other' = o
    /\ UNCHANGED <<mountDate, fnIn, fnOut>>

PairInit ==
    /\ mode = "datetime"
    /\ initialDate = D20240315
    /\ minuteInterval \in IntervalChoices
    /\ date = initialDate
    /\ isOpen = FALSE
    /\ activeView = ModeEffect(mode, "date")
    /\ dp = Unmounted
    /\ tp = Unmounted
    /\ calls = 0
    /\ commits = 0
    /\ delivered = NoValue
    /\ mountDate = initialDate
    /\ other = Constructed("datetime", D20250615, minuteInterval)
    /\ fnIn = NoValue
    /\ fnOut = NoValue

\* togglePicker from a field of this picker
PairClickField(view, pointer) ==
    /\ FieldShown(mode, view)
    /\ InsideThis(Render(TogglePicker(W, view), FALSE, FALSE), pointer)

\* A tab of this picker
PairClickTab(view, pointer) ==
    /\ isOpen
    /\ FieldShown(mode, view)
    /\ InsideThis(SetActiveView(W, view), pointer)

\* handlePrevMonth of this picker
PairPrevMonth(pointer) ==
    /\ dp.mounted
    /\ ViewOK(PrevMonth(dp).viewDate)
    /\ InsideThis(Browsed(W, PrevMonth(dp)), pointer)

\* handleDateClick of this picker
PairDateClick(day, pointer) ==
    /\ dp.mounted
    /\ NoSelectorShown(dp)
    /\ day \in 1..GetDaysInMonth(dp.viewDate.y, dp.viewDate.m)
    /\ LET newDate == ClickedDate(dp.viewDate, day)
       IN  InsideThis(Commit([W EXCEPT !.dp.selectedDate =
                                         [y |-> newDate.y, m |-> newDate.m, d |-> newDate.d]],
                             HandleDateChange(date, newDate)), pointer)

\* handleHourChange of this picker
PairHourChange(value, pointer) ==
    /\ tp.mounted
    /\ value \in 1..12
    /\ InsideThis(DraftChanged([W EXCEPT !.tp.hours = HourChange(value, tp.period)]), pointer)

\* togglePicker from a field of the other picker
OtherClickField(view, pointer) ==
    /\ FieldShown(other.mode, view)
    /\ InsideOther(Render(TogglePicker(other, view), FALSE, FALSE), pointer)

\* toggleYearSelector of the other picker
OtherToggleYearSelector(pointer) ==
    /\ other.dp.mounted
    /\ InsideOther(Browsed(other, YearSelectorToggled(other.dp)), pointer)

PairNext ==
    \/ \E view \in Views, pointer \in BOOLEAN : PairClickField(view, pointer)
    \/ \E view \in Views, pointer \in BOOLEAN : PairClickTab(view, pointer)
    \/ \E pointer \in BOOLEAN : PairPrevMonth(pointer)
    \/ \E day \in DayChoices, pointer \in BOOLEAN : PairDateClick(day, pointer)
    \/ \E value \in HourChoices, pointer \in BOOLEAN : PairHourChange(value, pointer)
    \/ \E view \in Views, pointer \in BOOLEAN : OtherClickField(view, pointer)
    \/ \E pointer \in BOOLEAN : OtherToggleYearSelector(pointer)

SpecPair == PairInit /\ [][PairNext]_vars

\* The events inside this picker made with the pointer (TRUE) or the keys
InsideThisStep(pointer) ==
    \/ \E view \in Views : PairClickField(view, pointer)
    \/ \E view \in Views : PairClickTab(view, pointer)
    \/ PairPrevMonth(pointer)
    \/ \E day \in DayChoices : PairDateClick(day, pointer)
    \/ \E value \in HourChoices : PairHourChange(value, pointer)

-----------------------------------------------------------------------------
(* The draft of TimePicker.                                                    *)

\* The 12-hour reading of a 24-hour value: 0 and 12 read 12, h reads h mod 12
To12Hour(h) == IF h % 12 = 0 THEN 12 ELSE h % 12

\* C24: in every draft reached from a TimePicker mounted on any hour 0..23 by
\* hour, minute and period changes, the period is PM exactly when the hours
\* are 12 or more, the hours are in 0..23, and the displayed hour is in 1..12
\* and is the 12-hour reading of the hours.
DraftPeriodMatchesHours ==
    (fnIn # NoValue /\ fnIn.fn = "draft" /\ fnOut # NoValue) =>
       /\ fnOut.hours \in 0..23
       /\ (fnOut.period = "PM") <=> (fnOut.hours >= 12)
       /\ DisplayHours(fnOut.hours, fnOut.period) \in 1..12
       /\ DisplayHours(fnOut.hours, fnOut.period) = To12Hour(fnOut.hours)

\* C24's case: a TimePicker mounted on 23:05 whose draft was taken to 12 AM
\* and minute 45.
DraftAtMidnight ==
    /\ fnIn # NoValue
    /\ fnIn.fn = "draft"
    /\ fnIn.h = 23
    /\ fnIn.mi = 5
    /\ fnOut # NoValue
    /\ fnOut.hours = 0
    /\ fnOut.period = "AM"
    /\ fnOut.minutes = 45

-----------------------------------------------------------------------------
(* Month navigation.                                                           *)

\* The (year, month) arguments a render of the calendar on view hands to
\* getDaysInMonth and getFirstDayOfMonth: renderCalendar those of the view,
\* getPrevMonthDays those of new Date(year, month - 1, 1) and of the view.
MonthArguments(view) ==
    LET prevMonth == MakeDate(view.y, view.m - 1, 1, 0, 0)
    IN  {[y |-> view.y, m |-> view.m], [y |-> prevMonth.y, m |-> prevMonth.m]}

\* C25: after any sequence of handlePrevMonth and handleNextMonth the month of
\* the view date is in 0..11; handlePrevMonth leaves December of the year
\* before from January and the month before of the same year otherwise,
\* handleNextMonth January of the year after from December and the month
\* after otherwise, each undoes the other; and every month handed to
\* getDaysInMonth or getFirstDayOfMonth is in 0..11, for the filler cells of
\* January it is December of the year before.
NavigationCarriesYear ==
    (fnIn # NoValue /\ fnIn.fn = "nav" /\ fnOut # NoValue) =>
       LET v == fnOut.viewDate
           p == PrevMonth(fnOut).viewDate
           n == NextMonth(fnOut).viewDate
       IN  /\ v.m \in 0..11
           /\ p = IF v.m = 0 THEN [y |-> v.y - 1, m |-> 11] ELSE [y |-> v.y, m |-> v.m - 1]
           /\ n = IF v.m = 11 THEN [y |-> v.y + 1, m |-> 0] ELSE [y |-> v.y, m |-> v.m + 1]
           /\ NextMonth(PrevMonth(fnOut)) = fnOut
           /\ PrevMonth(NextMonth(fnOut)) = fnOut
           /\ \A a \in MonthArguments(v) : a.m \in 0..11
           /\ v.m = 0 => [y |-> v.y - 1, m |-> 11] \in MonthArguments(v)

\* C25's case: handlePrevMonth has taken a view mounted on a January into
\* the December of the year before.
PrevFromJanuary ==
    /\ fnIn # NoValue
    /\ fnIn.fn = "nav"
    /\ fnIn.m = 0
    /\ fnOut # NoValue
    /\ fnOut.viewDate = [y |-> fnIn.y - 1, m |-> 11]

-----------------------------------------------------------------------------
(* The selected day.                                                           *)

\* C26: while DatePicker is mounted, its selectedDate has the year, month and
\* day of the committed date.
SelectedDayIsCommitted ==
    dp.mounted => dp.selectedDate = [y |-> date.y, m |-> date.m, d |-> date.d]

-----------------------------------------------------------------------------
(* The minutes a time change commits.                                          *)

\* The steps that change the draft of TimePicker
TimeStep ==
    \/ \E value \in HourChoices : HandleHourChange(value)
    \/ \E value \in MinuteChoices : HandleMinuteChange(value)
    \/ \E newPeriod \in Periods : HandlePeriodChange(newPeriod)

\* C27: with a minuteInterval that is positive and divides 60, the date a
\* change of the hour, the minute or the period commits has a minute that is
\* one of minuteOptions.
CommittedMinuteIsOption ==
    [][(date' # date /\ tp.mounted /\ TimeStep
        /\ minuteInterval > 0 /\ 60 % minuteInterval = 0) =>
          date'.mi \in Range(MinuteOptions(minuteInterval))
      ]_vars

-----------------------------------------------------------------------------
(* The value the host holds.                                                   *)

\* C28 as claimed: the value last delivered to onChange, or the initialDate
\* of the construction when none was, is the committed date.
HostHoldsCommitted ==
    (IF delivered = NoValue THEN mountDate ELSE delivered) = date

\* C28: after every step, a committed date other than the initialDate prop is
\* the value last delivered to onChange, and a step that calls onChange
\* leaves a committed date other than the initialDate prop: no call is made
\* for a date equal to it.
HostHoldsCommittedUnlessInitial ==
    [][/\ date' # initialDate' => delivered' = date'
       /\ calls' # calls => (date' # initialDate' /\ delivered' = date')
      ]_vars

\* C28's case: two dates were committed, the second the initialDate again,
\* and onChange was called for the first only.
BackOnInitialDate ==
    /\ commits = 2
    /\ calls = 1
    /\ date = initialDate
    /\ initialDate = mountDate
    /\ delivered # NoValue
    /\ delivered # date

=============================================================================
